---- MODULE Spec2Model ----
(***************************************************************************)
(* A model of fruity's Core Foundation ownership layer (CFType behind an   *)
(* Arc) and of the capability-probed dispatcher NSErrorRecoveryAttempting. *)
(*                                                                         *)
(* The foreign runtime (Core Foundation / the Objective-C runtime) is the  *)
(* environment: it keeps one retain count per object, answers              *)
(* respondsToSelector:, receives messages and delivers completion          *)
(* notifications.  The Rust code is the system: every action below is one  *)
(* method of src/, split only where the method makes two foreign calls     *)
(* (the probe and the send), so that other threads can run in between.     *)
(***************************************************************************)
EXTENDS Integers, Sequences, FiniteSets, TLC

\* ------------------------------------------------------------------ bounds
\* Wrappers (Arc<CFType> values) ever created over the whole run.
MaxWrappers == 3
\* References held on an object by code outside the wrappers.
MaxExt == 1

\* ------------------------------------------------------------- value sets
Objects == {"objA", "objB"}
Threads == {"t1", "t2"}
\* (error, recovery_option_index) pairs: an &NSError address and an NSUInteger.
Payloads == {<<1, 0>>, <<2, 1>>}
\* BOOL as the foreign call returns it: NO = 0, YES = 1.
BOOLs == {0, 1}
\* Option<&ObjCObject>, Option<SEL> and *mut c_void of the notification triple.
None == "None"
Delegates == {None, "delegate1"}
DidRecoverSelectors == {None, "didRecover:contextInfo:"}
Contexts == {"null", "ctx1"}
\* What an object holds, as far as CFEqual and CFHash can tell.
Values == {"v1", "v2"}

VARIABLES
    count,       \* foreign runtime: retain count of each object
    destroyed,   \* foreign runtime: object deallocated (count reached zero)
    retCalls,    \* foreign runtime: CFRetain calls received per object
    relCalls,    \* foreign runtime: CFRelease calls received per object
    initCount,   \* the retain count each object had when it was handed over
    fresh,       \* increments of a "create" call not yet adopted by a wrapper
    wrappers,    \* every Arc<CFType> ever made, in creation order
    responds,    \* foreign runtime: which selectors each object responds to
    pc,          \* per thread: idle, or inside a dispatch call after its probe
    req,         \* per thread: its latest dispatch request and what it returned
    trace,       \* per thread: the foreign calls of that request, in order
    registered,  \* foreign runtime: the notification triple kept for that request
    delivered,   \* foreign runtime: the completion notification sent for it
    value,       \* foreign runtime: the contents of each object
    obs          \* the latest equality, hash, type-id or retain-count query

ownVars == <<count, destroyed, retCalls, relCalls, initCount, fresh, wrappers>>
dispVars == <<responds, pc, req, trace, registered, delivered>>
queryVars == <<value, obs>>
vars == <<count, destroyed, retCalls, relCalls, initCount, fresh, wrappers,
          responds, pc, req, trace, registered, delivered, value, obs>>

\* ------------------------------------------------------- foreign runtime
\* CFRetain: the count goes up by one, atomically; returns the same address.
CFRetain(o) ==
    /\ count' = [count EXCEPT ![o] = @ + 1]
    /\ retCalls' = [retCalls EXCEPT ![o] = @ + 1]
    /\ UNCHANGED <<destroyed, relCalls>>

\* CFRelease: the count goes down by one, atomically; at zero the object is
\* deallocated.
CFRelease(o) ==
    /\ count' = [count EXCEPT ![o] = @ - 1]
    /\ relCalls' = [relCalls EXCEPT ![o] = @ + 1]
    /\ destroyed' = [destroyed EXCEPT ![o] = (count[o] - 1 = 0)]
    /\ UNCHANGED retCalls

\* CFGetRetainCount
CFGetRetainCount(o) == count[o]

\* CFEqual: a Boolean (1 or 0); objects are equal when their contents are,
\* whatever their addresses.
CFEqual(a, b) == IF value[a] = value[b] THEN 1 ELSE 0

\* CFHash: a hash code computed from the contents, so that equal objects
\* have equal codes.
HashCodes == [v1 |-> 11, v2 |-> 22]
CFHash(o) == HashCodes[value[o]]

\* CFGetTypeID: the identifier of the opaque type of the object.
TypeIDs == [objA |-> 1, objB |-> 2]
CFGetTypeID(o) == TypeIDs[o]

\* ------------------------------------------------------------ cf_type.rs
\* Arc::from_raw: wraps an address, no foreign call.
Arc_from_raw(t, o, origin, src) ==
    [obj |-> o, thread |-> t, origin |-> origin, src |-> src,
     live |-> TRUE, releases |-> 0]

\* A retain that wraps the address without calling CFRetain.
CFType_retain_NoIncrement(t, o, origin, src) ==
    /\ wrappers' = Append(wrappers, Arc_from_raw(t, o, origin, src))
    /\ UNCHANGED <<count, destroyed, retCalls, relCalls>>

\* A retain that calls CFRetain twice.
CFType_retain_Twice(t, o, origin, src) ==
    /\ count' = [count EXCEPT ![o] = @ + 2]
    /\ retCalls' = [retCalls EXCEPT ![o] = @ + 2]
    /\ UNCHANGED <<destroyed, relCalls>>
    /\ wrappers' = Append(wrappers, Arc_from_raw(t, o, origin, src))

\* A retain that calls CFRelease where CFRetain was meant.
CFType_retain_Releases(t, o, origin, src) ==
    /\ CFRelease(o)
    /\ wrappers' = Append(wrappers, Arc_from_raw(t, o, origin, src))

\* <CFType as ObjectType>::retain:  Arc::from_raw(sys::CFRetain(obj))
CFType_retain(t, o, origin, src) ==
    /\ CFRetain(o)
    /\ wrappers' = Append(wrappers, Arc_from_raw(t, o, origin, src))

\* A release that calls CFRelease twice.
CFType_release_Twice(o) ==
    /\ count' = [count EXCEPT ![o] = IF @ >= 2 THEN @ - 2 ELSE 0]
    /\ relCalls' = [relCalls EXCEPT ![o] = @ + 2]
    /\ destroyed' = [destroyed EXCEPT ![o] = (count[o] <= 2)]
    /\ UNCHANGED retCalls

\* A release that never reaches CFRelease.
CFType_release_Leak(o) == UNCHANGED <<count, destroyed, retCalls, relCalls>>

\* <CFType as ObjectType>::release:  sys::CFRelease(obj.as_ptr())
CFType_release(o) == CFRelease(o)

\* CFType::retain_count
retain_count(o) == CFGetRetainCount(o)

\* An equality that compares addresses.
CFType_eq_AddressOnly(a, b) == a = b

\* <CFType as PartialEq>::eq:  sys::CFEqual(self, other) != 0
CFType_eq(a, b) == CFEqual(a, b) # 0

\* A hash code taken from the address.
CFType_hash_Address(o) == IF o = "objA" THEN 4096 ELSE 8192

\* CFType::hash:  sys::CFHash(self)
CFType_hash(o) == CFHash(o)

\* <CFType as hash::Hash>::hash:  self.hash().hash(state); the hasher is
\* the sequence of values fed to it.
Hash_hash(o, state) == Append(state, CFType_hash(o))

\* CFType::get_type_id:  sys::CFGetTypeID(self)
get_type_id(o) == CFGetTypeID(o)

\* -------------------------------------------------- recovery_attempting.rs
\* selector!(attemptRecoveryFromError:optionIndex:)
attempt_recovery_sel == "attemptRecoveryFromError:optionIndex:"

\* selector!(attemptRecoveryFromError:optionIndex:delegate:didRecoverSelector:contextInfo:)
attempt_recovery_with_sel ==
    "attemptRecoveryFromError:optionIndex:delegate:didRecoverSelector:contextInfo:"

Selectors == {attempt_recovery_sel, attempt_recovery_with_sel}

\* NSObject::responds_to_selector: the foreign runtime's respondsToSelector:.
responds_to_selector(o, sel) == responds[o][sel]

\* From<BOOL> for bool: anything but NO is true.
BoolFromBOOL(b) == b # 0

\* A probe for the other method's selector.
attempt_recovery_probe_WrongSelector(o) ==
    [sel |-> attempt_recovery_with_sel,
     ok |-> responds_to_selector(o, attempt_recovery_with_sel)]

\* A borrow that retains the target and never gives the increment back.
attempt_recovery_this_Retains(o) == CFRetain(o)

\* attempt_recovery: `let this: &NSObject = &self.0;`, a borrow of the
\* target: no foreign call.
attempt_recovery_this(o) == UNCHANGED <<count, destroyed, retCalls, relCalls>>

\* attempt_recovery: the probe it makes (this.responds_to_selector(sel)).
attempt_recovery_probe(o) ==
    [sel |-> attempt_recovery_sel,
     ok |-> responds_to_selector(o, attempt_recovery_sel)]

\* A guard that lets every call through.
attempt_recovery_gate_Always(ok) == TRUE

\* attempt_recovery: `if !this.responds_to_selector(sel) { return false; }`;
\* TRUE when the call goes on to the send.
attempt_recovery_gate(ok) == ok

\* The two arguments in the wrong order.
attempt_recovery_payload_Swapped(err, idx) == <<idx, err>>

\* attempt_recovery: the tuple handed to _msg_send_with.
attempt_recovery_payload(err, idx) == <<err, idx>>

\* A conversion that takes NO for true.
attempt_recovery_result_Negated(b) == b = 0

\* attempt_recovery: `._msg_send_with::<_, BOOL>(..).into()`.
attempt_recovery_result(b) == BoolFromBOOL(b)

\* attempt_recovery_with: the probe it makes.
attempt_recovery_with_probe(o) ==
    [sel |-> attempt_recovery_with_sel,
     ok |-> responds_to_selector(o, attempt_recovery_with_sel)]

\* A guard that lets every call through.
attempt_recovery_with_gate_Always(ok) == TRUE

\* attempt_recovery_with: `if !this.responds_to_selector(sel) { return; }`.
attempt_recovery_with_gate(ok) == ok

\* A forward that passes a null context instead of the caller's.
attempt_recovery_with_payload_NullContext(err, idx, delegate, dsel, ctx) ==
    <<err, idx, delegate, dsel, "null">>

\* A forward that leaves the completion selector out.
attempt_recovery_with_payload_DropSelector(err, idx, delegate, dsel, ctx) ==
    <<err, idx, delegate, None, ctx>>

\* attempt_recovery_with: the tuple handed to _msg_send_with.
attempt_recovery_with_payload(err, idx, delegate, dsel, ctx) ==
    <<err, idx, delegate, dsel, ctx>>

\* ------------------------------------------------------------ wrappers
WrapperIds == 1..Len(wrappers)
LiveOn(o) == {w \in WrapperIds : wrappers[w].obj = o /\ wrappers[w].live}
MadeBy(o, origin) ==
    {w \in WrapperIds : wrappers[w].obj = o /\ wrappers[w].origin = origin}
DroppedOn(o) == {w \in WrapperIds : wrappers[w].obj = o /\ ~wrappers[w].live}

\* ------------------------------------------------------------------ Init
Idle == [kind |-> "idle", w |-> 0]

NoRequest ==
    [kind |-> "none", obj |-> "none", args |-> <<>>, returned |-> FALSE,
     ret |-> FALSE]

\* No query made yet.
NoQuery == [op |-> "none", a |-> "none", b |-> "none", eq |-> FALSE,
            num |-> 0, feed |-> <<>>]

InitDispatcher ==
    /\ obs = NoQuery
    /\ pc = [t \in Threads |-> Idle]
    /\ req = [t \in Threads |-> NoRequest]
    /\ trace = [t \in Threads |-> <<>>]
    /\ registered = [t \in Threads |-> {}]
    /\ delivered = [t \in Threads |-> {}]

\* Each object is handed over with the increment of a "create" call waiting
\* to be adopted (fresh), with references held by code outside the wrappers,
\* or with both.  objA ranges over all of these; objB is a second object,
\* freshly created, whose count the operations on objA must leave alone.
\* No dispatch request is made in these runs, so responds is not read.
Init ==
    /\ InitDispatcher
    /\ responds = [o \in Objects |-> [s \in Selectors |-> FALSE]]
    /\ value = [o \in Objects |-> "v1"]
    /\ fresh \in [Objects -> 0..1]
    /\ initCount \in [Objects -> 1..(MaxExt + 1)]
    /\ \A o \in Objects : initCount[o] - fresh[o] \in 0..MaxExt
    /\ fresh["objB"] = 1 /\ initCount["objB"] = 1
    /\ count = initCount
    /\ destroyed = [o \in Objects |-> FALSE]
    /\ retCalls = [o \in Objects |-> 0]
    /\ relCalls = [o \in Objects |-> 0]
    /\ wrappers = <<>>

\* --------------------------------------------------------------- actions
\* adopt: Arc::from_raw on an address that carries a fresh increment.
Adopt(t, o) ==
    /\ Len(wrappers) < MaxWrappers
    /\ fresh[o] > 0
    /\ ~destroyed[o]
    /\ wrappers' = Append(wrappers, Arc_from_raw(t, o, "adopt", 0))
    /\ fresh' = [fresh EXCEPT ![o] = @ - 1]
    /\ UNCHANGED <<count, destroyed, retCalls, relCalls, initCount, dispVars, queryVars>>

\* retain of a borrowed handle to a live object.
Retain(t, o) ==
    /\ Len(wrappers) < MaxWrappers
    /\ ~destroyed[o]
    /\ CFType_retain(t, o, "retain", 0)
    /\ UNCHANGED <<initCount, fresh, dispVars, queryVars>>

\* Arc::clone: T::retain(self), through a shared reference to a live wrapper.
Clone(t, w) ==
    /\ Len(wrappers) < MaxWrappers
    /\ w \in WrapperIds
    /\ wrappers[w].live
    /\ CFType_retain(t, wrappers[w].obj, "clone", w)
    /\ UNCHANGED <<initCount, fresh, dispVars, queryVars>>

\* Arc::drop: T::release(self.obj); the wrapper is gone afterwards.
Drop(t, w) ==
    /\ w \in WrapperIds
    /\ wrappers[w].live
    /\ wrappers[w].thread = t
    /\ \A u \in Threads : pc[u].w # w
    /\ CFType_release(wrappers[w].obj)
    /\ wrappers' = [wrappers EXCEPT
            ![w].live = FALSE,
            ![w].releases = @ + (relCalls'[wrappers[w].obj] - relCalls[wrappers[w].obj])]
    /\ UNCHANGED <<initCount, fresh, dispVars, queryVars>>

\* ------------------------------------------------------ dispatch actions
\* One foreign call made by the dispatcher.
Event(ev, o, sel, args, ok, res) ==
    [ev |-> ev, obj |-> o, sel |-> sel, args |-> args, ok |-> ok, res |-> res]

Request(kind, o, args, returned) ==
    [kind |-> kind, obj |-> o, args |-> args, returned |-> returned,
     ret |-> FALSE]

\* attempt_recovery up to its first return or its send: the selector, the
\* probe, and the early `return false` when the probe fails.  The thread's
\* earlier request is over; the model follows its latest one.
AttemptRecoveryCall(t, w, err, idx) ==
    /\ pc[t] = Idle
    /\ w \in WrapperIds
    /\ wrappers[w].live
    /\ LET o == wrappers[w].obj
           p == attempt_recovery_probe(o)
           go == attempt_recovery_gate(p.ok)
       IN /\ trace' = [trace EXCEPT ![t] =
                << Event("responds_to", o, p.sel, <<>>, p.ok, 0) >>]
          /\ req' = [req EXCEPT ![t] =
                Request("attempt_recovery", o, <<err, idx>>, ~go)]
          /\ pc' = [pc EXCEPT ![t] =
                IF go THEN [kind |-> "attempt_recovery", w |-> w] ELSE Idle]
          /\ attempt_recovery_this(o)
    /\ registered' = [registered EXCEPT ![t] = {}]
    /\ delivered' = [delivered EXCEPT ![t] = {}]
    /\ UNCHANGED <<initCount, fresh, wrappers, queryVars, responds>>

\* attempt_recovery after a successful probe: the send and the return of its
\* result.  b is what the foreign method answers.
AttemptRecoverySend(t, b) ==
    /\ pc[t].kind = "attempt_recovery"
    /\ LET a == req[t].args
       IN /\ trace' = [trace EXCEPT ![t] = Append(@,
                Event("send", req[t].obj, attempt_recovery_sel,
                      attempt_recovery_payload(a[1], a[2]), TRUE, b))]
          /\ req' = [req EXCEPT ![t].returned = TRUE,
                                ![t].ret = attempt_recovery_result(b)]
    /\ pc' = [pc EXCEPT ![t] = Idle]
    /\ UNCHANGED <<ownVars, queryVars, responds, registered, delivered>>

\* attempt_recovery_with up to its first return or its send.
AttemptRecoveryWithCall(t, w, err, idx, delegate, dsel, ctx) ==
    /\ pc[t] = Idle
    /\ w \in WrapperIds
    /\ wrappers[w].live
    /\ LET o == wrappers[w].obj
           p == attempt_recovery_with_probe(o)
           go == attempt_recovery_with_gate(p.ok)
       IN /\ trace' = [trace EXCEPT ![t] =
                << Event("responds_to", o, p.sel, <<>>, p.ok, 0) >>]
          /\ req' = [req EXCEPT ![t] =
                Request("attempt_recovery_with", o,
                        <<err, idx, delegate, dsel, ctx>>, ~go)]
          /\ pc' = [pc EXCEPT ![t] =
                IF go THEN [kind |-> "attempt_recovery_with", w |-> w] ELSE Idle]
    /\ registered' = [registered EXCEPT ![t] = {}]
    /\ delivered' = [delivered EXCEPT ![t] = {}]
    /\ UNCHANGED <<ownVars, queryVars, responds>>

\* attempt_recovery_with after a successful probe: the send.  The foreign
\* method keeps the delegate, the selector and the context it was handed.
AttemptRecoveryWithSend(t) ==
    /\ pc[t].kind = "attempt_recovery_with"
    /\ LET a == req[t].args
           sent == attempt_recovery_with_payload(a[1], a[2], a[3], a[4], a[5])
       IN /\ trace' = [trace EXCEPT ![t] = Append(@,
                Event("send_notify", req[t].obj, attempt_recovery_with_sel,
                      sent, TRUE, 0))]
          /\ registered' = [registered EXCEPT ![t] =
                {[delegate |-> sent[3], sel |-> sent[4], ctx |-> sent[5]]}]
    /\ req' = [req EXCEPT ![t].returned = TRUE]
    /\ pc' = [pc EXCEPT ![t] = Idle]
    /\ UNCHANGED <<ownVars, queryVars, responds, delivered>>

\* The foreign runtime, out of band: the recovery attempt of t's request is
\* over and the delegate is sent the completion message with the context.
Deliver(t) ==
    /\ delivered[t] = {}
    /\ \E n \in registered[t] :
          /\ n.delegate # None
          /\ n.sel # None
          /\ delivered' = [delivered EXCEPT ![t] = {n}]
    /\ UNCHANGED <<ownVars, queryVars, responds, pc, req, trace, registered>>

\* ---------------------------------------------------------- query actions
Query(op, a, b, eq, num, feed) ==
    [op |-> op, a |-> a, b |-> b, eq |-> eq, num |-> num, feed |-> feed]

\* a == b on the objects behind two live wrappers.
QueryEq(w, v) ==
    /\ w \in WrapperIds /\ wrappers[w].live
    /\ v \in WrapperIds /\ wrappers[v].live
    /\ LET a == wrappers[w].obj
           b == wrappers[v].obj
       IN obs' = Query("eq", a, b, CFType_eq(a, b), 0, <<>>)
    /\ UNCHANGED <<ownVars, dispVars, value>>

\* a.hash() and Hash::hash(a, hasher) with a fresh hasher.
QueryHash(w) ==
    /\ w \in WrapperIds /\ wrappers[w].live
    /\ LET a == wrappers[w].obj
       IN obs' = Query("hash", a, a, FALSE, CFType_hash(a), Hash_hash(a, <<>>))
    /\ UNCHANGED <<ownVars, dispVars, value>>

\* a.get_type_id()
QueryTypeId(w) ==
    /\ w \in WrapperIds /\ wrappers[w].live
    /\ LET a == wrappers[w].obj
       IN obs' = Query("get_type_id", a, a, FALSE, get_type_id(a), <<>>)
    /\ UNCHANGED <<ownVars, dispVars, value>>

\* a.retain_count()
QueryRetainCount(w) ==
    /\ w \in WrapperIds /\ wrappers[w].live
    /\ LET a == wrappers[w].obj
       IN obs' = Query("retain_count", a, a, FALSE, retain_count(a), <<>>)
    /\ UNCHANGED <<ownVars, dispVars, value>>

NextOwnership ==
    \/ \E t \in Threads, o \in Objects : Adopt(t, o)
    \/ \E t \in Threads, o \in Objects : Retain(t, o)
    \/ \E t \in Threads, w \in WrapperIds : Clone(t, w)
    \/ \E t \in Threads, w \in WrapperIds : Drop(t, w)

NextDispatch ==
    \/ \E t \in Threads, w \in WrapperIds, a \in Payloads :
          AttemptRecoveryCall(t, w, a[1], a[2])
    \/ \E t \in Threads, b \in BOOLs : AttemptRecoverySend(t, b)
    \/ \E t \in Threads, w \in WrapperIds, a \in Payloads,
          delegate \in Delegates, dsel \in DidRecoverSelectors, ctx \in Contexts :
          AttemptRecoveryWithCall(t, w, a[1], a[2], delegate, dsel, ctx)
    \/ \E t \in Threads : AttemptRecoveryWithSend(t)
    \/ \E t \in Threads : Deliver(t)
    \/ \E t \in Threads, w \in WrapperIds : Drop(t, w)

Next == NextOwnership

\* The ownership layer: threads adopting, retaining, cloning and dropping.
Spec == Init /\ [][Next]_vars

\* The ownership state the dispatcher's runs start from, one the ownership
\* layer reaches: objA, held elsewhere, retained by t1; objB adopted by t2.
DispatchStart ==
    /\ fresh = [o \in Objects |-> 0]
    /\ initCount = [o \in Objects |-> 1]
    /\ count = [objA |-> 2, objB |-> 1]
    /\ destroyed = [o \in Objects |-> FALSE]
    /\ retCalls = [objA |-> 1, objB |-> 0]
    /\ relCalls = [o \in Objects |-> 0]
    /\ wrappers = << Arc_from_raw("t1", "objA", "retain", 0),
                     Arc_from_raw("t2", "objB", "adopt", 0) >>

\* The dispatcher: threads issuing dispatch requests through the wrappers of
\* DispatchStart, and dropping them.  Each selector is implemented by exactly
\* one of the two objects, so every run has a target that responds and one
\* that does not.
InitDispatch ==
    /\ InitDispatcher
    /\ DispatchStart
    /\ responds \in [Objects -> [Selectors -> BOOLEAN]]
    /\ \A s \in Selectors : responds["objA"][s] # responds["objB"][s]
    /\ value = [o \in Objects |-> "v1"]

SpecDispatch == InitDispatch /\ [][NextDispatch]_vars

\* Queries and dispatch requests together, on objects of any contents.  The
\* requests carry one payload and a notification triple that is fully present
\* or fully absent.
InitQuery ==
    /\ InitDispatcher
    /\ DispatchStart
    /\ responds \in [Objects -> [Selectors -> BOOLEAN]]
    /\ \A s \in Selectors : responds["objA"][s] # responds["objB"][s]
    /\ value \in [Objects -> Values]

QueryStep ==
    \/ \E w, v \in WrapperIds : QueryEq(w, v)
    \/ \E w \in WrapperIds : QueryHash(w)
    \/ \E w \in WrapperIds : QueryTypeId(w)
    \/ \E w \in WrapperIds : QueryRetainCount(w)

ProbeStep ==
    \/ \E t \in Threads, w \in WrapperIds : AttemptRecoveryCall(t, w, 1, 0)
    \/ \E t \in Threads, w \in WrapperIds :
          \/ AttemptRecoveryWithCall(t, w, 1, 0, None, None, "null")
          \/ AttemptRecoveryWithCall(t, w, 1, 0, "delegate1",
                                     "didRecover:contextInfo:", "ctx1")

SendStep ==
    \/ \E t \in Threads, b \in BOOLs : AttemptRecoverySend(t, b)
    \/ \E t \in Threads : AttemptRecoveryWithSend(t)

NextQuery ==
    \/ QueryStep
    \/ ProbeStep
    \/ SendStep
    \/ \E t \in Threads : Deliver(t)
    \/ \E t \in Threads, w \in WrapperIds : Drop(t, w)

SpecQuery == InitQuery /\ [][NextQuery]_vars

\* ================================================================ claims
Retains(o) == Cardinality(MadeBy(o, "retain"))
Clones(o) == Cardinality(MadeBy(o, "clone"))
Adopts(o) == Cardinality(MadeBy(o, "adopt"))
Drops(o) == Cardinality(DroppedOn(o))
Sends(t) == {i \in DOMAIN trace[t] : trace[t][i].ev \in {"send", "send_notify"}}
Probed(t) == Len(trace[t]) >= 1 /\ trace[t][1].ev = "responds_to"

\* C1 as stated: after any sequence of retain, clone and drop on an object its
\* retain count is the initial count plus (#retains + #clones - #drops), and
\* the object is destroyed once #drops = #retains + #clones + 1.
C1_Original ==
    \A o \in Objects :
        /\ retain_count(o) = initCount[o] + Retains(o) + Clones(o) - Drops(o)
        /\ (Drops(o) = Retains(o) + Clones(o) + 1 => destroyed[o])

\* C1 amended: the retain count is the initial count plus (#retains + #clones
\* - #drops), and the object is destroyed exactly when #drops = #retains +
\* #clones + initial count, which is #retains + #clones + 1 only for an object
\* whose initial count is 1.
C1_RefcountRoundTrip ==
    \A o \in Objects :
        /\ retain_count(o) = initCount[o] + Retains(o) + Clones(o) - Drops(o)
        /\ destroyed[o] <=> (Drops(o) = Retains(o) + Clones(o) + initCount[o])
        /\ (initCount[o] = 1 /\ Drops(o) = Retains(o) + Clones(o) + 1) => destroyed[o]

C1_Witness ==
    \E o \in Objects :
        /\ destroyed[o]
        /\ Retains(o) + Clones(o) = 2
        /\ Drops(o) = 3

\* C5: a wrapper issues no CFRelease while it lives and exactly one when it is
\* dropped, none later; the CFRelease calls an object receives never exceed the
\* wrappers made on it.
C5_ReleaseExactlyOnce ==
    /\ \A w \in WrapperIds :
          wrappers[w].releases = (IF wrappers[w].live THEN 0 ELSE 1)
    /\ \A o \in Objects :
          /\ relCalls[o] = Drops(o)
          /\ relCalls[o] <= Retains(o) + Clones(o) + Adopts(o)

C5_Witness ==
    \E w, v \in WrapperIds :
        /\ wrappers[w].obj = wrappers[v].obj
        /\ ~wrappers[w].live /\ wrappers[w].releases = 1
        /\ wrappers[v].live
        /\ relCalls[wrappers[w].obj] = 1

\* C6: an object's retain count is at least the number of live wrappers on it.
C6_CountAtLeastLiveWrappers ==
    \A o \in Objects : retain_count(o) >= Cardinality(LiveOn(o))

C6_Witness ==
    \E o \in Objects :
        /\ Cardinality(LiveOn(o)) = 2
        /\ retain_count(o) = 3

\* C7: while a clone or the wrapper it was cloned from is live, and more
\* generally while any wrapper on the object is live, the object is not
\* destroyed and its count is not zero.
C7_CloneIndependence ==
    /\ \A w \in WrapperIds :
          (wrappers[w].origin = "clone"
              /\ (wrappers[w].live \/ wrappers[wrappers[w].src].live))
          => (~destroyed[wrappers[w].obj] /\ retain_count(wrappers[w].obj) > 0)
    /\ \A o \in Objects :
          LiveOn(o) # {} => (~destroyed[o] /\ retain_count(o) > 0)

C7_Witness ==
    \E w \in WrapperIds :
        /\ wrappers[w].origin = "clone"
        /\ ~wrappers[w].live
        /\ wrappers[wrappers[w].src].live
        /\ retain_count(wrappers[w].obj) = 1

\* C8: adopt makes no CFRetain call, retain and clone make one each; an object
\* created with count 1 and adopted has count 1, count 2 after a clone, count 1
\* after one of the two wrappers is dropped, and count 0 and is destroyed after
\* the other is dropped too.
C8_AdoptCloneDropScenario ==
    \A o \in Objects :
        /\ retCalls[o] = Retains(o) + Clones(o)
        /\ (initCount[o] = 1 /\ Adopts(o) = 1 /\ Retains(o) = 0) =>
              /\ (Clones(o) = 0 /\ Drops(o) = 0) => retain_count(o) = 1
              /\ (Clones(o) = 1 /\ Drops(o) = 0) => retain_count(o) = 2
              /\ (Clones(o) = 1 /\ Drops(o) = 1) =>
                    (retain_count(o) = 1 /\ ~destroyed[o])
              /\ (Clones(o) = 1 /\ Drops(o) = 2) =>
                    (retain_count(o) = 0 /\ destroyed[o])

C8_Witness ==
    \E o \in Objects :
        /\ initCount[o] = 1 /\ Adopts(o) = 1 /\ Retains(o) = 0
        /\ Clones(o) = 1 /\ Drops(o) = 2
        /\ destroyed[o]

\* C9: with threads retaining, cloning and dropping concurrently, the count is
\* the initial count plus the CFRetain calls minus the CFRelease calls, and no
\* object is destroyed while a thread holds a live wrapper on it.
C9_ConcurrentCounting ==
    \A o \in Objects :
        /\ count[o] = initCount[o] + retCalls[o] - relCalls[o]
        /\ \A t \in Threads :
              (\E w \in LiveOn(o) : wrappers[w].thread = t) => ~destroyed[o]

C9_Witness ==
    \E w, v \in WrapperIds :
        /\ wrappers[w].obj = wrappers[v].obj
        /\ wrappers[w].thread # wrappers[v].thread
        /\ ~wrappers[w].live
        /\ wrappers[v].live
        /\ wrappers[v].origin = "clone" /\ wrappers[v].src = w

\* C2: an attempt_recovery whose probe answered false makes no send, has
\* returned, and returned false.
C2_ProbeFalseNoSend ==
    \A t \in Threads :
        (req[t].kind = "attempt_recovery" /\ Probed(t) /\ ~trace[t][1].ok) =>
            /\ Sends(t) = {}
            /\ pc[t] = Idle
            /\ req[t].returned
            /\ req[t].ret = FALSE

C2_Witness ==
    \E t \in Threads :
        /\ req[t].kind = "attempt_recovery"
        /\ ~responds[req[t].obj][attempt_recovery_sel]
        /\ req[t].returned
        /\ Len(trace[t]) = 1

\* C3: every send in a request's trace comes after a probe of the same request
\* that answered true for the same object and the same selector.
C3_SendAfterOwnProbe ==
    \A t \in Threads : \A i \in Sends(t) :
        \E j \in 1..(i - 1) :
            /\ trace[t][j].ev = "responds_to"
            /\ trace[t][j].ok
            /\ trace[t][j].obj = trace[t][i].obj
            /\ trace[t][j].sel = trace[t][i].sel

C3_Witness ==
    \E t, u \in Threads :
        /\ t # u
        /\ Sends(t) # {}
        /\ pc[u] # Idle
        /\ req[u].obj = req[t].obj
        /\ req[u].kind # req[t].kind

\* C4: an attempt_recovery_with whose probe answered false makes no send,
\* registers no notification triple, has none delivered, and has returned.
C4_ProbeFalseNoNotification ==
    \A t \in Threads :
        (req[t].kind = "attempt_recovery_with" /\ Probed(t) /\ ~trace[t][1].ok) =>
            /\ Sends(t) = {}
            /\ registered[t] = {}
            /\ delivered[t] = {}
            /\ pc[t] = Idle
            /\ req[t].returned

C4_Witness ==
    \E t \in Threads :
        /\ req[t].kind = "attempt_recovery_with"
        /\ ~responds[req[t].obj][attempt_recovery_with_sel]
        /\ req[t].args[3] # None /\ req[t].args[4] # None
        /\ req[t].returned

\* C10: an attempt_recovery whose probe answered true makes no send before it
\* returns and exactly one by then, to the probed object, with selector
\* attemptRecoveryFromError:optionIndex: and arguments (error, option index),
\* and returns true exactly when the foreign answer is YES.
C10_ProbeTrueForwardsOnce ==
    \A t \in Threads :
        (req[t].kind = "attempt_recovery" /\ Probed(t) /\ trace[t][1].ok) =>
            /\ ~req[t].returned => (Sends(t) = {} /\ pc[t].kind = "attempt_recovery")
            /\ req[t].returned =>
                  /\ Sends(t) = {2}
                  /\ Len(trace[t]) = 2
                  /\ trace[t][2].ev = "send"
                  /\ trace[t][2].obj = req[t].obj
                  /\ trace[t][2].obj = trace[t][1].obj
                  /\ trace[t][2].sel = "attemptRecoveryFromError:optionIndex:"
                  /\ trace[t][2].args = req[t].args
                  /\ req[t].ret = (trace[t][2].res = 1)

C10_Witness ==
    \E t \in Threads :
        /\ req[t].kind = "attempt_recovery"
        /\ req[t].returned
        /\ Len(trace[t]) = 2
        /\ trace[t][2].args = <<2, 1>>
        /\ trace[t][2].res = 0
        /\ req[t].ret = FALSE

\* C11: a completion notification sent for a request belongs to an
\* attempt_recovery_with whose probe answered true, is the triple the foreign
\* runtime was handed, and names the delegate, the completion selector and the
\* context the caller passed in, unchanged.
C11_NotificationOpacity ==
    \A t \in Threads : \A d \in delivered[t] :
        /\ req[t].kind = "attempt_recovery_with"
        /\ Probed(t) /\ trace[t][1].ok
        /\ req[t].returned
        /\ d \in registered[t]
        /\ d.delegate = req[t].args[3]
        /\ d.sel = req[t].args[4]
        /\ d.ctx = req[t].args[5]

C11_Witness ==
    \E t \in Threads : \E d \in delivered[t] :
        /\ d.delegate = "delegate1"
        /\ d.sel = "didRecover:contextInfo:"
        /\ d.ctx = "ctx1"
        /\ req[t].args[5] = "ctx1"

TripleFull(a) == a[3] # None /\ a[4] # None /\ a[5] # "null"
TripleAbsent(a) == a[3] = None /\ a[4] = None /\ a[5] = "null"
Forwards(t) == {i \in DOMAIN trace[t] : trace[t][i].ev = "send_notify"}

\* C12 as stated: every request attempt_recovery_with forwards carries a
\* notification triple that is fully present or fully absent.
C12_Original ==
    \A t \in Threads : \A i \in Forwards(t) :
        TripleFull(trace[t][i].args) \/ TripleAbsent(trace[t][i].args)

\* C12 amended: attempt_recovery_with forwards the delegate, the completion
\* selector and the context exactly as the caller supplied them, so the
\* forwarded triple is fully present or fully absent whenever the caller's is;
\* a partial triple is not rejected and reaches the foreign runtime as given.
C12_TripleForwardedAsSupplied ==
    \A t \in Threads : \A i \in Forwards(t) :
        /\ trace[t][i].args[3] = req[t].args[3]
        /\ trace[t][i].args[4] = req[t].args[4]
        /\ trace[t][i].args[5] = req[t].args[5]
        /\ (TripleFull(req[t].args) \/ TripleAbsent(req[t].args)) =>
              (TripleFull(trace[t][i].args) \/ TripleAbsent(trace[t][i].args))

C12_Witness ==
    \E t, u \in Threads :
        /\ Forwards(t) # {} /\ TripleFull(req[t].args)
        /\ Forwards(u) # {} /\ TripleAbsent(req[u].args)

\* C13: a == b is true exactly when the foreign runtime holds the two objects
\* equal, which goes by their contents: objects at different addresses with
\* equal contents compare equal, and the same address is not looked at.
C13_EqualityIsForeignEqual ==
    /\ \A a, b \in Objects : CFType_eq(a, b) <=> (value[a] = value[b])
    /\ obs.op = "eq" => (obs.eq <=> (value[obs.a] = value[obs.b]))

C13_Witness ==
    /\ obs.op = "eq"
    /\ obs.a # obs.b
    /\ obs.eq

\* C14: objects the foreign runtime holds equal have the same hash code and
\* feed the same value to the hasher, that value being the foreign hash code
\* and nothing else; every object equals itself.
C14_HashConsistentWithEquality ==
    /\ \A a, b \in Objects :
          CFEqual(a, b) = 1 =>
              /\ CFType_hash(a) = CFType_hash(b)
              /\ Hash_hash(a, <<>>) = Hash_hash(b, <<>>)
    /\ \A a \in Objects : CFType_eq(a, a)
    /\ obs.op = "hash" =>
          /\ obs.num = HashCodes[value[obs.a]]
          /\ obs.feed = << HashCodes[value[obs.a]] >>

C14_Witness ==
    /\ obs.op = "hash"
    /\ \E b \in Objects : b # obs.a /\ value[b] = value[obs.a]
    /\ obs.feed = << 11 >>

\* C15: a probe, a send, and an equality, hash, type-id or retain-count query
\* make no CFRetain and no CFRelease call and leave every retain count and
\* every wrapper as they were; a probe moreover leaves the whole state of the
\* foreign objects alone and answers true or false.
C15_QueriesAndDispatchKeepCounts ==
    [][(QueryStep \/ ProbeStep \/ SendStep) =>
          /\ UNCHANGED <<count, destroyed, retCalls, relCalls, wrappers>>
          /\ ProbeStep =>
                /\ UNCHANGED <<ownVars, responds, value>>
                /\ \A t \in Threads :
                      trace'[t] # trace[t] => trace'[t][1].ok \in BOOLEAN]_vars

C15_Witness ==
    /\ obs.op = "retain_count" /\ obs.num = 2
    /\ \E t, u \in Threads :
          /\ req[t].kind = "attempt_recovery" /\ Sends(t) # {}
          /\ req[u].kind = "attempt_recovery_with" /\ delivered[u] # {}
    /\ count = [objA |-> 2, objB |-> 1]
    /\ \A w \in WrapperIds : wrappers[w].live

C17_TrueOnlyAfterProbeAndSend ==
    \A t \in Threads :
        (req[t].kind = "attempt_recovery" /\ req[t].returned /\ req[t].ret) =>
            /\ Probed(t)
            /\ trace[t][1].ok
            /\ responds[req[t].obj][attempt_recovery_sel]
            /\ \E i \in Sends(t) : trace[t][i].ev = "send" /\ trace[t][i].res = 1

C17_Witness ==
    \E t, u \in Threads :
        /\ req[t].kind = "attempt_recovery" /\ req[t].returned /\ ~req[t].ret
        /\ Sends(t) # {}
        /\ req[u].kind = "attempt_recovery" /\ req[u].returned /\ ~req[u].ret
        /\ Sends(u) = {}
====
